---- MODULE Spec2Model ----
(***************************************************************************)
(* Extraction-and-normalisation pipeline of the course and track scrapers  *)
(* (course_scraper.py, track_scraper.py).                                   *)
(*                                                                         *)
(* Text is a sequence of one-character strings, so that the regular        *)
(* expression search, str.replace and strip are computed character by      *)
(* character.  A decoded JSON value is a record tagged by its field k.     *)
(***************************************************************************)
EXTENDS Integers, Sequences, FiniteSets, TLC

VARIABLES
    duration,      \* duration harness: the duration value handed to the parsers
    course_hours,  \* duration harness: outcome of the Course duration parsing
    track_hours,   \* duration harness: outcome of the Track 'hours' expression
    element,       \* renderer harness: the content region handed to the renderers
    course_md,     \* renderer harness: text returned by the Course renderer
    track_md,      \* renderer harness: text returned by the Track renderer
    page,          \* extraction harness: the document handed to the extractors
    course_result, \* extraction harness: outcome of find_course_json_ld
    track_result,  \* extraction harness: outcome of extract_track_info
    kind,          \* run: which scraper runs, "Course" or "Track"
    urls,          \* run: the input URL list
    web,           \* run: what fetching each URL gives, a page or a failure
    idx,           \* run: position of the loop in urls
    all_courses,   \* run: collection of the Course scraper
    tracks_data,   \* run: collection of the Track scraper
    csvfile,       \* run: the rows of the written table, Absent while no file is
    pc,            \* run: "loop", "done", or "aborted" by an uncaught exception
    sample,        \* unit harnesses: the input handed to the operation
    course_out,    \* unit harnesses: what the Course scraper makes of it
    track_out      \* unit harnesses: what the Track scraper makes of it

durVars == <<duration, course_hours, track_hours>>
mdVars == <<element, course_md, track_md>>
exVars == <<page, course_result, track_result>>
runVars == <<kind, urls, web, idx, all_courses, tracks_data, csvfile, pc>>
unitVars == <<sample, course_out, track_out>>
vars == <<duration, course_hours, track_hours, element, course_md, track_md,
          page, course_result, track_result,
          kind, urls, web, idx, all_courses, tracks_data, csvfile, pc,
          sample, course_out, track_out>>

----------------------------------------------------------------------------
(* Decoded JSON values and outcomes of a call                              *)

Null == [k |-> "null"]
Absent == [k |-> "absent"]
Str(s) == [k |-> "str", s |-> s]
Num(n) == [k |-> "num", n |-> n]
Pending == [k |-> "pending"]
Ok(v) == [k |-> "ok", v |-> v]
Raise(e) == [k |-> "raise", e |-> e]
List(items) == [k |-> "list", items |-> items]
\* a JSON object / Python dict; f maps its keys to their values
Obj(f) == [k |-> "obj", f |-> f]
EmptyDict == [k |-> "obj", f |-> <<>>]

\* d.get(key) and d.get(key, default) of a dict d
Get(d, key) == IF key \in DOMAIN d.f THEN d.f[key] ELSE Null
GetOr(d, key, default) == IF key \in DOMAIN d.f THEN d.f[key] ELSE default

----------------------------------------------------------------------------
(* Bounds of the duration harness                                          *)

MaxTokenLen == 5
TokenAlphabet == {"P", "T", "H", "M", "D", "0", "1"}
Tokens == UNION {[1..n -> TokenAlphabet] : n \in 0..MaxTokenLen}

----------------------------------------------------------------------------
(* Text helpers                                                            *)

Digits == {"0", "1", "2", "3", "4", "5", "6", "7", "8", "9"}
DigitVal(c) ==
    CASE c = "0" -> 0 [] c = "1" -> 1 [] c = "2" -> 2 [] c = "3" -> 3
      [] c = "4" -> 4 [] c = "5" -> 5 [] c = "6" -> 6 [] c = "7" -> 7
      [] c = "8" -> 8 [] c = "9" -> 9

\* int(text) for a non-empty text of decimal digits
RECURSIVE DigitsToInt(_)
DigitsToInt(ds) ==
    IF ds = <<>> THEN 0
    ELSE 10 * DigitsToInt(SubSeq(ds, 1, Len(ds) - 1)) + DigitVal(ds[Len(ds)])

\* index of the last character of the longest run of digits starting at i
\* (i - 1 when s[i] is no digit)
RECURSIVE DigitRunEnd(_, _)
DigitRunEnd(s, i) ==
    IF i <= Len(s) /\ s[i] \in Digits THEN DigitRunEnd(s, i + 1) ELSE i - 1

\* whether text s has pat at position i
HasAt(s, pat, i) ==
    /\ i >= 1
    /\ i + Len(pat) - 1 <= Len(s)
    /\ SubSeq(s, i, i + Len(pat) - 1) = pat

\* the 'in' operator on texts
Contains(s, pat) == \E i \in 1..(Len(s) + 1) : HasAt(s, pat, i)

\* s.replace(pat, ''): every non-overlapping occurrence, left to right, one pass
RECURSIVE RemoveAll(_, _)
RemoveAll(s, pat) ==
    IF s = <<>> THEN <<>>
    ELSE IF HasAt(s, pat, 1)
         THEN RemoveAll(SubSeq(s, Len(pat) + 1, Len(s)), pat)
         ELSE <<s[1]>> \o RemoveAll(Tail(s), pat)

----------------------------------------------------------------------------
(* Duration parsing                                                        *)

\* Python truthiness of a decoded value
Truthy(v) ==
    CASE v.k = "str" -> v.s # <<>>
      [] v.k = "num" -> v.n # 0
      [] v.k = "list" -> v.items # <<>>
      [] v.k = "obj" -> DOMAIN v.f # {}
      [] OTHER -> FALSE

\* whether r'PT(\d+)H' matches text s at position i
MatchAt(s, i) ==
    /\ HasAt(s, <<"P", "T">>, i)
    /\ DigitRunEnd(s, i + 2) >= i + 2
    /\ HasAt(s, <<"H">>, DigitRunEnd(s, i + 2) + 1)

\* re.search(r'PT(\d+)H', s): group 1 of the leftmost match, or NoMatch
NoMatch == [k |-> "nomatch"]
re_search(s) ==
    IF \E i \in 1..Len(s) : MatchAt(s, i)
    THEN LET i == CHOOSE j \in 1..Len(s) :
                      MatchAt(s, j) /\ \A h \in 1..(j - 1) : ~MatchAt(s, h)
         IN  Str(SubSeq(s, i + 2, DigitRunEnd(s, i + 2)))
    ELSE NoMatch

\* course_scraper.py 44-48: the value left in course_info['courseWorkload_hours']
CourseHours(w) ==
    IF ~Truthy(w) THEN Ok(Null)
    ELSE IF w.k # "str" THEN Raise("TypeError")
    ELSE IF re_search(w.s) = NoMatch THEN Ok(Null)
    ELSE Ok(Num(DigitsToInt(re_search(w.s).s)))

\* track_scraper.py 184: json_data.get('timeRequired', '').replace('PT', '').replace('H', '')
TrackHours(w) ==
    IF w.k = "absent" THEN Ok(Str(<<>>))
    ELSE IF w.k # "str" THEN Raise("AttributeError")
    ELSE Ok(Str(RemoveAll(RemoveAll(w.s, <<"P", "T">>), <<"H">>)))

----------------------------------------------------------------------------
(* Markup trees.  A node is an element (tag, kids) or a text leaf          *)
(* (tag "#text", s); kids are in document order.                           *)

Elem(tag, kids) == [tag |-> tag, s |-> <<>>, kids |-> kids]
Text(s) == [tag |-> "#text", s |-> s, kids |-> <<>>]
\* an element with an id attribute ("" when it has none) and its classes
ElemA(tag, id, cls, kids) ==
    [tag |-> tag, s |-> <<>>, kids |-> kids, id |-> id, cls |-> cls]
IdOf(n) == IF "id" \in DOMAIN n THEN n.id ELSE ""
ClassesOf(n) == IF "cls" \in DOMAIN n THEN n.cls ELSE {}

Whitespace == {" ", "\n", "\t"}

\* str.strip()
RECURSIVE LStrip(_)
LStrip(s) == IF s # <<>> /\ s[1] \in Whitespace THEN LStrip(Tail(s)) ELSE s
RECURSIVE RStrip(_)
RStrip(s) ==
    IF s # <<>> /\ s[Len(s)] \in Whitespace
    THEN RStrip(SubSeq(s, 1, Len(s) - 1)) ELSE s
Strip(s) == RStrip(LStrip(s))

\* concatenation of a sequence of sequences
RECURSIVE Flatten(_)
Flatten(ss) == IF ss = <<>> THEN <<>> ELSE Head(ss) \o Flatten(Tail(ss))

\* sep.join(lines)
RECURSIVE Join(_, _)
Join(lines, sep) ==
    IF lines = <<>> THEN <<>>
    ELSE IF Len(lines) = 1 THEN lines[1]
    ELSE lines[1] \o sep \o Join(Tail(lines), sep)

\* s.replace(pat, rep): every non-overlapping occurrence, left to right; an
\* empty pat matches before every character and at the end
RECURSIVE Replace(_, _, _)
Replace(s, pat, rep) ==
    IF pat = <<>>
    THEN IF s = <<>> THEN rep ELSE rep \o <<s[1]>> \o Replace(Tail(s), pat, rep)
    ELSE IF s = <<>> THEN <<>>
    ELSE IF HasAt(s, pat, 1)
         THEN rep \o Replace(SubSeq(s, Len(pat) + 1, Len(s)), pat, rep)
         ELSE <<s[1]>> \o Replace(Tail(s), pat, rep)

DigitChars == <<"0", "1", "2", "3", "4", "5", "6", "7", "8", "9">>
\* str(n) for n >= 0
RECURSIVE IntToText(_)
IntToText(n) ==
    IF n < 10 THEN <<DigitChars[n + 1]>>
    ELSE IntToText(n \div 10) \o <<DigitChars[(n % 10) + 1]>>

\* node.get_text(strip=True): the stripped, non-empty strings below the node,
\* concatenated
RECURSIVE get_text(_)
get_text(n) ==
    IF n.tag = "#text" THEN Strip(n.s)
    ELSE Flatten([i \in 1..Len(n.kids) |-> get_text(n.kids[i])])

\* the elements below n in document order, each with whether an ancestor of
\* it is a list item (in_li is whether n, or an ancestor of n, is one) and
\* with the siblings that follow it
RECURSIVE Descendants(_, _)
Descendants(n, in_li) ==
    Flatten([i \in 1..Len(n.kids) |->
        IF n.kids[i].tag = "#text" THEN <<>>
        ELSE <<[node |-> n.kids[i], in_li |-> (in_li \/ n.tag = "li"),
                after |-> SubSeq(n.kids, i + 1, Len(n.kids))]>>
             \o Descendants(n.kids[i], in_li \/ n.tag = "li")])

\* node.find_all(tags): the elements below the node with one of the tags
find_all(n, tags) ==
    LET ds == Descendants(n, FALSE)
        hit == SelectSeq(ds, LAMBDA d : d.node.tag \in tags)
    IN  [i \in 1..Len(hit) |-> hit[i].node]

\* node.find_all('li', recursive=False)
direct_items(n) == SelectSeq(n.kids, LAMBDA c : c.tag = "li")

\* node.find(tag) is not None
has(n, tag) == find_all(n, {tag}) # <<>>

InSeq(x, seq) == \E i \in 1..Len(seq) : seq[i] = x

\* append each of items that is not yet among lines
RECURSIVE AppendNew(_, _)
AppendNew(lines, items) ==
    IF items = <<>> THEN lines
    ELSE AppendNew(IF InSeq(Head(items), lines) THEN lines
                   ELSE Append(lines, Head(items)), Tail(items))

----------------------------------------------------------------------------
(* Markdown renderers                                                      *)

BlankLine == <<"\n", "\n">>

\* course_scraper.py 154-157 and 159-162: one line per list item found at any
\* depth below the list; an ordered item is numbered by its position among them
CourseListLines(child, ordered) ==
    LET lis == find_all(child, {"li"})
    IN  Flatten([i \in 1..Len(lis) |->
            IF get_text(lis[i]) = <<>> THEN <<>>
            ELSE IF ordered
                 THEN <<IntToText(i) \o <<".", " ">> \o get_text(lis[i])>>
                 ELSE <<<<"-", " ">> \o get_text(lis[i])>>])

\* course_scraper.py 144-167: the lines one child of the region adds
CourseChildLines(child) ==
    LET text == get_text(child)
    IN  CASE child.tag = "h2" -> <<<<"#", "#", " ">> \o text>>
          [] child.tag = "h3" -> <<<<"#", "#", "#", " ">> \o text>>
          [] child.tag = "p" ->
                IF text # <<>> /\ ~(Len(find_all(child, {"img"})) > 0 /\ text = <<>>)
                THEN <<text>> ELSE <<>>
          [] child.tag = "ul" -> CourseListLines(child, FALSE)
          [] child.tag = "ol" -> CourseListLines(child, TRUE)
          [] OTHER -> IF text # <<>> THEN <<text>> ELSE <<>>

\* course_scraper.py 139-169, convert_html_to_markdown
course_convert_html_to_markdown(el) ==
    Join(Flatten([i \in 1..Len(el.kids) |-> CourseChildLines(el.kids[i])]),
         BlankLine)

\* track_scraper.py 102-106 and 120-124: each bold text of the item wrapped in **
RECURSIVE WrapBold(_, _)
WrapBold(li_text, bolds) ==
    IF bolds = <<>> THEN li_text
    ELSE LET bold_text == get_text(Head(bolds))
         IN  WrapBold(Replace(li_text, bold_text,
                              <<"*", "*">> \o bold_text \o <<"*", "*">>),
                      Tail(bolds))

\* track_scraper.py 97-107 and 115-125: ul_items / ol_items of a list, from
\* its direct items only
TrackListItems(child, ordered) ==
    LET lis == direct_items(child)
    IN  Flatten([i \in 1..Len(lis) |->
            IF get_text(lis[i]) = <<>> THEN <<>>
            ELSE LET li_text == WrapBold(get_text(lis[i]),
                                         find_all(lis[i], {"b", "strong"}))
                 IN  IF ordered
                     THEN <<IntToText(i) \o <<".", " ">> \o li_text>>
                     ELSE <<<<"-", " ">> \o li_text>>])

\* track_scraper.py 81-130: markdown_lines after one element d of the traversal
TrackVisit(lines, d) ==
    LET child == d.node
        text == get_text(child)
    IN  CASE child.tag = "h2" ->
                IF text # <<>> THEN AppendNew(lines, <<<<"#", "#", " ">> \o text>>)
                ELSE lines
          [] child.tag = "h3" ->
                IF text # <<>>
                THEN AppendNew(lines, <<<<"#", "#", "#", " ">> \o text>>)
                ELSE lines
          [] child.tag = "p" ->
                IF text # <<>> /\ ~has(child, "picture") /\ ~has(child, "img")
                THEN AppendNew(lines, <<text>>) ELSE lines
          [] child.tag = "ul" /\ ~d.in_li ->
                AppendNew(lines, TrackListItems(child, FALSE))
          [] child.tag = "ol" /\ ~d.in_li ->
                AppendNew(lines, TrackListItems(child, TRUE))
          [] OTHER -> lines

RECURSIVE TrackVisitAll(_, _)
TrackVisitAll(lines, ds) ==
    IF ds = <<>> THEN lines
    ELSE TrackVisitAll(TrackVisit(lines, Head(ds)), Tail(ds))

\* track_scraper.py 132-138: duplicates removed, order preserved
UniqueLines(lines) == AppendNew(<<>>, lines)

\* track_scraper.py 75-140, convert_html_to_markdown (the region itself is
\* not inside a list item)
track_convert_html_to_markdown(el) ==
    Join(UniqueLines(TrackVisitAll(<<>>, Descendants(el, FALSE))), BlankLine)

----------------------------------------------------------------------------
(* Section location (extract_skills, extract_detailed_description,         *)
(* extract_exercises_count of both scrapers)                               *)

UpperChars == <<"A", "B", "C", "D", "E", "F", "G", "H", "I", "J", "K", "L", "M", "N", "O", "P", "Q", "R", "S", "T", "U", "V", "W", "X", "Y", "Z">>
LowerChars == <<"a", "b", "c", "d", "e", "f", "g", "h", "i", "j", "k", "l", "m", "n", "o", "p", "q", "r", "s", "t", "u", "v", "w", "x", "y", "z">>
ToLower(c) ==
    IF \E i \in 1..26 : UpperChars[i] = c
    THEN LowerChars[CHOOSE i \in 1..26 : UpperChars[i] = c] ELSE c
\* str.lower()
Lower(s) == [i \in 1..Len(s) |-> ToLower(s[i])]

\* re.compile(label, re.IGNORECASE).search(s) for a label without
\* metacharacters
SearchIgnoreCase(label, s) == Contains(Lower(s), Lower(label))

\* the id and class values of the pages' vocabulary that each attribute
\* pattern of the scrapers matches (pattern contained in the value, case
\* ignored)
AttrMatches ==
    { <<"skillsSection", "skillsSection__title">>,
      <<"description", "productDescriptionSection__title">>,
      <<"description", "productDescriptionSection__content">>,
      <<"content", "productDescriptionSection__content">>,
      <<"content", "content">>,
      <<"productDescriptionSection__content",
        "productDescriptionSection__content">>,
      <<"course_information", "course_information">>,
      <<"productSummarySection__itemLabel", "productSummarySection__itemLabel">>,
      <<"productSummarySection__itemValue", "productSummarySection__itemValue">> }
IdMatches(n, pat) == <<pat, IdOf(n)>> \in AttrMatches
ClassMatches(n, pat) == \E c \in ClassesOf(n) : <<pat, c>> \in AttrMatches

\* tag.string: the string of an only child, looked up through only children
RECURSIVE string_of(_)
string_of(n) ==
    IF n.tag = "#text" THEN Str(n.s)
    ELSE IF Len(n.kids) = 1 THEN string_of(n.kids[1])
    ELSE Null

\* the first of the positions hits that is at or after from (0 when there is
\* none): find and find_next take the first element in document order
FirstFrom(from, hits) ==
    IF \E i \in hits : i >= from
    THEN CHOOSE i \in hits : i >= from /\ \A j \in hits : j >= from => i <= j
    ELSE 0

\* FindHeading falling back to the first h2 of the document
FindHeadingAnyH2(ds, label, pat) ==
    FirstFrom(1, {i \in 1..Len(ds) : ds[i].node.tag = "h2"})

\* course_scraper.py 58-62 / 84-88, track_scraper.py 29-33 / 55-59: the h2
\* whose string matches the label, else the h2 whose id matches pat, else
\* the h2 with a class that matches pat
FindHeading(ds, label, pat) ==
    LET byText == FirstFrom(1, {i \in 1..Len(ds) : LET n == ds[i].node IN
                      /\ n.tag = "h2"
                      /\ string_of(n).k = "str"
                      /\ SearchIgnoreCase(label, string_of(n).s)})
        byId == FirstFrom(1, {i \in 1..Len(ds) : LET n == ds[i].node IN n.tag = "h2" /\ IdMatches(n, pat)})
        byClass == FirstFrom(1, {i \in 1..Len(ds) : LET n == ds[i].node IN
                      n.tag = "h2" /\ ClassMatches(n, pat)})
    IN  IF byText # 0 THEN byText ELSE IF byId # 0 THEN byId ELSE byClass

T_SkillsLabel == <<"S", "k", "i", "l", "l", "s", " ", "y", "o", "u", " ", "w", "i", "l", "l", " ", "g", "a", "i", "n">>
T_DescriptionLabel == <<"D", "e", "s", "c", "r", "i", "p", "t", "i", "o", "n">>

\* course_scraper.py 53-76 and track_scraper.py 24-48, extract_skills
extract_skills(html_content) ==
    LET ds == Descendants(html_content.body, FALSE)
        skills_heading == FindHeading(ds, T_SkillsLabel, "skillsSection")
        skills_list == FirstFrom(skills_heading + 1, {i \in 1..Len(ds) : LET n == ds[i].node IN n.tag = "ul"})
    IN  IF skills_heading = 0 \/ skills_list = 0 THEN <<>>
        ELSE LET lis == find_all(ds[skills_list].node, {"li"})
             IN  SelectSeq([i \in 1..Len(lis) |-> get_text(lis[i])],
                           LAMBDA skill_text : skill_text # <<>>)

\* course_scraper.py 79-109, extract_detailed_description
course_extract_detailed_description(html_content) ==
    LET ds == Descendants(html_content.body, FALSE)
        desc_heading == FindHeading(ds, T_DescriptionLabel, "description")
        first == FirstFrom(desc_heading + 1, {i \in 1..Len(ds) : LET n == ds[i].node IN
                      n.tag = "div" /\ ClassMatches(n, "content")})
        content_section ==
            IF first # 0 THEN first
            ELSE FirstFrom(desc_heading + 1, {i \in 1..Len(ds) : LET n == ds[i].node IN
                     /\ n.tag = "div"
                     /\ ClassMatches(n, "productDescriptionSection__content")})
    IN  IF desc_heading = 0 \/ content_section = 0 THEN <<>>
        ELSE LET divs == SelectSeq(find_all(ds[content_section].node, {"div"}),
                             LAMBDA d : ClassMatches(d, "course_information"))
                 mds == [i \in 1..Len(divs) |->
                            course_convert_html_to_markdown(divs[i])]
             IN  Join(SelectSeq(mds, LAMBDA md : Strip(md) # <<>>), BlankLine)

\* track_scraper.py 50-73, extract_detailed_description
track_extract_detailed_description(html_content) ==
    LET ds == Descendants(html_content.body, FALSE)
        desc_heading == FindHeading(ds, T_DescriptionLabel, "description")
        first == FirstFrom(desc_heading + 1, {i \in 1..Len(ds) : LET n == ds[i].node IN
                     /\ n.tag = "div"
                     /\ ClassMatches(n, "productDescriptionSection__content")})
        content_section ==
            IF first # 0 THEN first
            ELSE FirstFrom(desc_heading + 1, {i \in 1..Len(ds) : LET n == ds[i].node IN
                     n.tag = "div" /\ ClassMatches(n, "content")})
    IN  IF desc_heading = 0 \/ content_section = 0 THEN <<>>
        ELSE track_convert_html_to_markdown(ds[content_section].node)

T_CodingChallenges == <<"c", "o", "d", "i", "n", "g", " ", "c", "h", "a", "l", "l", "e", "n", "g", "e", "s">>
T_Exercises == <<"e", "x", "e", "r", "c", "i", "s", "e", "s">>

\* re.sub(r'\D', '', text)
OnlyDigits(text) == SelectSeq(text, LAMBDA c : c \in Digits)

\* course_scraper.py 120-134: the count one label yields, Null when the loop
\* goes on to the next label
ExercisesOfLabel(d) ==
    LET label_text == Lower(get_text(d.node))
        values == SelectSeq(d.after, LAMBDA n :
                      /\ n.tag = "span"
                      /\ ClassMatches(n, "productSummarySection__itemValue"))
    IN  IF ~(Contains(label_text, T_CodingChallenges)
             \/ Contains(label_text, T_Exercises)) THEN Null
        ELSE IF values = <<>> THEN Null
        ELSE IF OnlyDigits(get_text(values[1])) = <<>> THEN Null
        ELSE Num(DigitsToInt(OnlyDigits(get_text(values[1]))))

\* course_scraper.py 112-136, extract_exercises_count
extract_exercises_count(html_content) ==
    LET ds == Descendants(html_content.body, FALSE)
        summary_items == SelectSeq(ds, LAMBDA d :
                      /\ d.node.tag = "span"
                      /\ ClassMatches(d.node, "productSummarySection__itemLabel"))
        counts == SelectSeq([i \in 1..Len(summary_items) |->
                                ExercisesOfLabel(summary_items[i])],
                            LAMBDA c : c # Null)
    IN  IF counts = <<>> THEN Null ELSE counts[1]

----------------------------------------------------------------------------
(* Documents.  A document is its metadata scripts (the script elements of  *)
(* type application/ld+json, in document order) and its markup (body).     *)
(* A script's string is Null for a script element with no content, else   *)
(* a text that json.loads either rejects or decodes to a value.            *)

JsonText(v) == [k |-> "text", valid |-> TRUE, json |-> v]
BadText == [k |-> "text", valid |-> FALSE, json |-> Null]
Script(string) == [k |-> "script", string |-> string]

\* json.loads(x)
json_loads(x) ==
    IF x.k # "text" THEN Raise("TypeError")
    ELSE IF ~x.valid THEN Raise("JSONDecodeError")
    ELSE Ok(x.json)

T_Course == <<"C", "o", "u", "r", "s", "e">>

----------------------------------------------------------------------------
(* Course metadata extraction (course_scraper.py)                          *)

\* course_scraper.py 31-34: price and currency, or the AttributeError of
\* offers.get on a truthy value that is no dict
CourseOffers(json_ld_data) ==
    LET offers == Get(json_ld_data, "offers")
    IN  IF ~Truthy(offers) THEN Ok([price |-> Null, currency |-> Null])
        ELSE IF offers.k # "obj" THEN Raise("AttributeError")
        ELSE Ok([price |-> Get(offers, "price"),
                 currency |-> Get(offers, "priceCurrency")])

\* CourseWorkload falling back to the last course instance
CourseWorkloadLastInstance(json_ld_data) ==
    LET workload == Get(json_ld_data, "timeRequired")
        course_instances == Get(json_ld_data, "hasCourseInstance")
    IN  IF Truthy(workload) THEN Ok(workload)
        ELSE IF Truthy(course_instances) /\ course_instances.k = "list"
                /\ Len(course_instances.items) > 0
        THEN LET last == course_instances.items[Len(course_instances.items)]
             IN  IF last.k # "obj" THEN Raise("AttributeError")
                 ELSE Ok(Get(last, "courseWorkload"))
        ELSE Ok(workload)

\* course_scraper.py 37-42: the workload value chosen by the fallback
CourseWorkload(json_ld_data) ==
    LET workload == Get(json_ld_data, "timeRequired")
        course_instances == Get(json_ld_data, "hasCourseInstance")
    IN  IF Truthy(workload) THEN Ok(workload)
        ELSE IF Truthy(course_instances) /\ course_instances.k = "list"
                /\ Len(course_instances.items) > 0
        THEN IF course_instances.items[1].k # "obj" THEN Raise("AttributeError")
             ELSE Ok(Get(course_instances.items[1], "courseWorkload"))
        ELSE Ok(workload)

\* course_scraper.py 15-50, extract_course_data
extract_course_data(json_ld_data) ==
    LET offers == CourseOffers(json_ld_data)
        workload == CourseWorkload(json_ld_data)
        parsed == CourseHours(workload.v)
    IN  IF offers.k = "raise" THEN offers
        ELSE IF workload.k = "raise" THEN workload
        ELSE IF parsed.k = "raise" THEN parsed
        ELSE Ok([type |-> Get(json_ld_data, "@type"),
                 title |-> Get(json_ld_data, "name"),
                 description |-> Get(json_ld_data, "description"),
                 price |-> offers.v.price,
                 currency |-> offers.v.currency,
                 courseWorkload_hours |-> parsed.v,
                 educationalLevel |-> Get(json_ld_data, "educationalLevel"),
                 skills |-> <<>>,
                 detailed_description |-> <<>>,
                 exercises_count |-> Null])

\* the courses list and the exception (or "none") after one decoded item
Collected(e, courses) == [e |-> e, courses |-> courses]

\* course_scraper.py 187-188 / 189-190: item.get('@type') == 'Course', then
\* the append
CourseItem(item, courses) ==
    IF item.k # "obj" THEN Collected("AttributeError", courses)
    ELSE IF Get(item, "@type") # Str(T_Course) THEN Collected("none", courses)
    ELSE LET r == extract_course_data(item)
         IN  IF r.k = "raise" THEN Collected(r.e, courses)
             ELSE Collected("none", Append(courses, r.v))

\* course_scraper.py 186-188: the items of an array, until one raises
RECURSIVE CourseItems(_, _)
CourseItems(items, courses) ==
    IF items = <<>> THEN Collected("none", courses)
    ELSE LET r == CourseItem(Head(items), courses)
         IN  IF r.e # "none" THEN r ELSE CourseItems(Tail(items), r.courses)

\* CourseScript without the branch for arrays: get is called on the array
CourseScriptObjectsOnly(script, courses) ==
    LET json_data == json_loads(script.string)
    IN  IF json_data.k = "raise" THEN Collected(json_data.e, courses)
        ELSE CourseItem(json_data.v, courses)

\* course_scraper.py 182-190: the body of the try for one script
CourseScript(script, courses) ==
    LET json_data == json_loads(script.string)
    IN  IF json_data.k = "raise" THEN Collected(json_data.e, courses)
        ELSE IF json_data.v.k = "list"
        THEN CourseItems(json_data.v.items, courses)
        ELSE CourseItem(json_data.v, courses)

\* course_scraper.py 192: the exceptions the except clause catches
CourseCaught == {"JSONDecodeError", "AttributeError"}

\* course_scraper.py 180-194: the loop over the scripts
RECURSIVE CourseScripts(_, _)
CourseScripts(scripts, courses) ==
    IF scripts = <<>> THEN Ok(courses)
    ELSE LET r == CourseScript(Head(scripts), courses)
         IN  IF r.e = "none" \/ r.e \in CourseCaught
             THEN CourseScripts(Tail(scripts), r.courses)
             ELSE Raise(r.e)

\* course_scraper.py 172-196, find_course_json_ld
find_course_json_ld(html_content) == CourseScripts(html_content.scripts, <<>>)

----------------------------------------------------------------------------
(* Track metadata extraction (track_scraper.py)                            *)

T_MySQL == <<"M", "y", "S", "Q", "L">>
T_PostgreSQL == <<"P", "o", "s", "t", "g", "r", "e", "S", "Q", "L">>
T_SQLServer == <<"S", "Q", "L", " ", "S", "e", "r", "v", "e", "r">>
T_StandardSQL == <<"S", "t", "a", "n", "d", "a", "r", "d", " ", "S", "Q", "L">>
T_Practice == <<"P", "r", "a", "c", "t", "i", "c", "e">>
T_practice == <<"p", "r", "a", "c", "t", "i", "c", "e">>
T_learn == <<"l", "e", "a", "r", "n">>
T_url == <<"u", "r", "l">>

\* script_tag.get_text(): the text of the script, empty (which json.loads
\* rejects) for a script element with no content
script_get_text(script) == IF script.string = Null THEN BadText ELSE script.string

\* track_scraper.py 200: the exceptions the except clause catches
TrackCaught == {"JSONDecodeError", "AttributeError", "KeyError"}

\* what extract_track_info does with an exception raised in its try block
TrackExcept(e) == IF e \in TrackCaught THEN Ok(Null) ELSE Raise(e)

\* text in v for a decoded value v (the dict keys of the inputs are field
\* names, none of them a title word)
TextIn(text, v) ==
    CASE v.k = "str" -> Ok(Contains(v.s, text))
      [] v.k = "list" -> Ok(InSeq(Str(text), v.items))
      [] v.k = "obj" -> Ok(FALSE)
      [] OTHER -> Raise("TypeError")

\* TrackDialect with 'PostgreSQL' tested before 'MySQL'
TrackDialectPostgresFirst(track_name) ==
    IF TextIn(T_PostgreSQL, track_name).v THEN T_PostgreSQL
    ELSE IF TextIn(T_MySQL, track_name).v THEN T_MySQL
    ELSE IF TextIn(T_SQLServer, track_name).v THEN T_SQLServer
    ELSE T_StandardSQL

\* track_scraper.py 168-174 (track_name is a value that 'in' accepts)
TrackDialect(track_name) ==
    IF TextIn(T_MySQL, track_name).v THEN T_MySQL
    ELSE IF TextIn(T_PostgreSQL, track_name).v THEN T_PostgreSQL
    ELSE IF TextIn(T_SQLServer, track_name).v THEN T_SQLServer
    ELSE T_StandardSQL

\* track_scraper.py 177
TrackPurpose(track_name) ==
    IF TextIn(T_Practice, track_name).v THEN T_practice ELSE T_learn

\* track_scraper.py 183: json_data.get('offers', {}).get('price', '')
TrackPrice(json_data) ==
    LET offers == GetOr(json_data, "offers", EmptyDict)
    IN  IF offers.k # "obj" THEN Raise("AttributeError")
        ELSE Ok(GetOr(offers, "price", Str(<<>>)))

\* track_scraper.py 195-196: the urls one member of hasPart adds, or the
\* TypeError of 'url' in course / course['url']
PartUrl(course) ==
    CASE course.k = "obj" ->
            Ok(IF "url" \in DOMAIN course.f THEN <<course.f["url"]>> ELSE <<>>)
      [] course.k = "str" ->
            IF Contains(course.s, T_url) THEN Raise("TypeError") ELSE Ok(<<>>)
      [] course.k = "list" ->
            IF InSeq(Str(T_url), course.items) THEN Raise("TypeError")
            ELSE Ok(<<>>)
      [] OTHER -> Raise("TypeError")

RECURSIVE PartUrls(_, _)
PartUrls(parts, found) ==
    IF parts = <<>> THEN Ok(found)
    ELSE LET r == PartUrl(Head(parts))
         IN  IF r.k = "raise" THEN r ELSE PartUrls(Tail(parts), found \o r.v)

\* track_scraper.py 193-196: course_urls (hasPart is absent or an array in
\* the inputs; iterating a number or null raises)
TrackCourseUrls(json_data) ==
    IF "hasPart" \notin DOMAIN json_data.f THEN Ok(<<>>)
    ELSE IF json_data.f["hasPart"].k = "list"
    THEN PartUrls(json_data.f["hasPart"].items, <<>>)
    ELSE Raise("TypeError")

\* track_scraper.py 161-198: the record built from the decoded metadata
TrackRecord(json_data, html_content) ==
    LET track_name ==
            IF json_data.k = "obj" THEN GetOr(json_data, "name", Str(<<>>))
            ELSE Null
        in_name == TextIn(T_MySQL, track_name)
        price == TrackPrice(json_data)
        hrs == TrackHours(GetOr(json_data, "timeRequired", Absent))
        course_urls == TrackCourseUrls(json_data)
    IN  IF json_data.k # "obj" THEN TrackExcept("AttributeError")
        ELSE IF in_name.k = "raise" THEN TrackExcept(in_name.e)
        ELSE IF price.k = "raise" THEN TrackExcept(price.e)
        ELSE IF hrs.k = "raise" THEN TrackExcept(hrs.e)
        ELSE IF course_urls.k = "raise" THEN TrackExcept(course_urls.e)
        ELSE Ok([name |-> track_name,
                description |-> GetOr(json_data, "description", Str(<<>>)),
                detailed_description |->
                    track_extract_detailed_description(html_content),
                price |-> price.v,
                hours |-> hrs.v,
                level |-> GetOr(json_data, "educationalLevel", Str(<<>>)),
                dialect |-> TrackDialect(track_name),
                purpose |-> TrackPurpose(track_name),
                skills |-> extract_skills(html_content),
                course_urls |-> course_urls.v])

\* SelectTrackScript taking the first script
SelectFirstScript(script_tags) == script_tags[1]

\* track_scraper.py 152: script_tags[1], the second script
SelectTrackScript(script_tags) == script_tags[2]

\* track_scraper.py 142-202, extract_track_info: Ok(Null) is the None it
\* returns, Raise an exception that escapes it
extract_track_info(html_content) ==
    LET script_tags == html_content.scripts
    IN  IF Len(script_tags) < 2 THEN Ok(Null)
        ELSE LET json_data == json_loads(script_get_text(SelectTrackScript(script_tags)))
             IN  IF json_data.k = "raise" THEN TrackExcept(json_data.e)
                 ELSE TrackRecord(json_data.v, html_content)

----------------------------------------------------------------------------
(* Export (course_scraper.py 267-312, track_scraper.py 204-232).  A row is *)
(* the sequence of its cells, a cell the text written for it.              *)

F_title == <<"t", "i", "t", "l", "e">>
F_url == <<"u", "r", "l">>
F_exercises == <<"e", "x", "e", "r", "c", "i", "s", "e", "s">>
F_dialect == <<"d", "i", "a", "l", "e", "c", "t">>
F_hours == <<"h", "o", "u", "r", "s">>
F_kind == <<"k", "i", "n", "d">>
F_description == <<"d", "e", "s", "c", "r", "i", "p", "t", "i", "o", "n">>
F_detailed_description == <<"d", "e", "t", "a", "i", "l", "e", "d", "_", "d", "e", "s", "c", "r", "i", "p", "t", "i", "o", "n">>
F_skills == <<"s", "k", "i", "l", "l", "s">>
F_purpose == <<"p", "u", "r", "p", "o", "s", "e">>
F_level == <<"l", "e", "v", "e", "l">>
F_price == <<"p", "r", "i", "c", "e">>
T_CourseKind == T_Course
T_TrackKind == <<"T", "r", "a", "c", "k">>

\* fieldnames with the two description columns exchanged
fieldnames_swapped ==
    <<F_title, F_url, F_exercises, F_dialect, F_hours, F_kind,
      F_detailed_description, F_description, F_skills, F_purpose, F_level, F_price>>

\* course_scraper.py 271 and track_scraper.py 206
fieldnames ==
    <<F_title, F_url, F_exercises, F_dialect, F_hours, F_kind, F_description,
      F_detailed_description, F_skills, F_purpose, F_level, F_price>>

\* the text the csv writer writes for a value: nothing for None, str(value)
\* otherwise (the values of the inputs are null, strings and whole numbers)
CellText(v) ==
    CASE v.k = "null" -> <<>>
      [] v.k = "str" -> v.s
      [] v.k = "num" -> IntToText(v.n)

\* csv.DictWriter.writerow: the cells of the row in the order of fieldnames
writerow(row) == [j \in 1..Len(fieldnames) |-> CellText(row[fieldnames[j]])]

\* csv.DictWriter.writeheader: the row of the column names
writeheader == fieldnames

\* course_scraper.py 285-289
price_text(course) ==
    IF Truthy(course.price) /\ Truthy(course.currency)
    THEN Str(CellText(course.price) \o <<" ">> \o CellText(course.currency))
    ELSE IF Truthy(course.price) THEN Str(CellText(course.price))
    ELSE Str(<<>>)

\* course_scraper.py 282-305: row_data of one course
course_row_data(course) ==
    F_title :> course.title
    @@ F_url :> course.source_url
    @@ F_exercises :> course.exercises_count
    @@ F_dialect :> Str(<<>>)
    @@ F_hours :> course.courseWorkload_hours
    @@ F_kind :> Str(T_CourseKind)
    @@ F_description :> course.description
    @@ F_detailed_description :> Str(course.detailed_description)
    @@ F_skills :> Str(Join(course.skills, <<"\n">>))
    @@ F_purpose :> Str(<<>>)
    @@ F_level :> course.educationalLevel
    @@ F_price :> price_text(course)

\* a written table
File(rows) == [k |-> "file", rows |-> rows]

\* course_scraper.py 273-307: the rows written to courses_extracted.csv
save_courses_to_csv(courses) ==
    File(<<writeheader>>
         \o [i \in 1..Len(courses) |-> writerow(course_row_data(courses[i]))])

\* track_scraper.py 214-229: row of one track
track_row(track) ==
    F_title :> track.name
    @@ F_url :> track.url
    @@ F_exercises :> Str(<<>>)
    @@ F_dialect :> Str(track.dialect)
    @@ F_hours :> track.hours
    @@ F_kind :> Str(T_TrackKind)
    @@ F_description :> track.description
    @@ F_detailed_description :> Str(track.detailed_description)
    @@ F_skills :> Str(Join(track.skills, <<",", " ">>))
    @@ F_purpose :> Str(track.purpose)
    @@ F_level :> track.level
    @@ F_price :> track.price

\* track_scraper.py 204-232, save_tracks_to_csv: the rows written
save_tracks_to_csv(tracks) ==
    File(<<writeheader>> \o [i \in 1..Len(tracks) |-> writerow(track_row(tracks[i]))])

----------------------------------------------------------------------------
(* Values of the variables a harness does not use                          *)

DurIdle == duration = Absent /\ course_hours = Pending /\ track_hours = Pending
MdIdle == element = Pending /\ course_md = Pending /\ track_md = Pending
ExIdle == page = Pending /\ course_result = Pending /\ track_result = Pending
RunIdle ==
    /\ kind = "none" /\ urls = <<>> /\ web = <<>> /\ idx = 1
    /\ all_courses = <<>> /\ tracks_data = <<>> /\ csvfile = Absent /\ pc = "idle"
UnitIdle == sample = Pending /\ course_out = Pending /\ track_out = Pending

----------------------------------------------------------------------------
(* Duration harness: a duration value is drawn, then each parser is run    *)

DurationInit ==
    /\ duration \in {Absent} \cup {Str(t) : t \in Tokens}
    /\ course_hours = Pending
    /\ track_hours = Pending
    /\ MdIdle /\ ExIdle /\ RunIdle /\ UnitIdle

ParseCourseDuration ==
    /\ course_hours = Pending
    /\ course_hours' = CourseHours(IF duration = Absent THEN Null ELSE duration)
    /\ UNCHANGED <<duration, track_hours, mdVars, exVars, runVars, unitVars>>

ParseTrackDuration ==
    /\ track_hours = Pending
    /\ track_hours' = TrackHours(duration)
    /\ UNCHANGED <<duration, course_hours, mdVars, exVars, runVars, unitVars>>

DurationNext == ParseCourseDuration \/ ParseTrackDuration

SpecDuration == DurationInit /\ [][DurationNext]_vars

\* a text of the exact form PT<digits>H
IsHourToken(s) ==
    /\ Len(s) >= 4
    /\ HasAt(s, <<"P", "T">>, 1)
    /\ s[Len(s)] = "H"
    /\ \A i \in 3..(Len(s) - 1) : s[i] \in Digits

HourDigits(s) == SubSeq(s, 3, Len(s) - 1)

\* C2: the Course duration parser returns the hour count iff the token is
\* exactly PT<digits>H, and null for every other token (no partial parse).
C2_ExactHourPattern ==
    course_hours # Pending =>
        IF duration.k = "str" /\ IsHourToken(duration.s)
        THEN course_hours = Ok(Num(DigitsToInt(HourDigits(duration.s))))
        ELSE course_hours = Ok(Null)

\* C3: the Track hours field is the hour count of a PT<digits>H token, or
\* empty; never a leftover fragment of the token.
C3_TrackHoursCountOrEmpty ==
    (track_hours # Pending /\ track_hours.k = "ok") =>
        IF duration.k = "str" /\ IsHourToken(duration.s)
        THEN track_hours.v = Str(HourDigits(duration.s))
        ELSE track_hours.v = Str(<<>>)

----------------------------------------------------------------------------
(* Renderer harness: a content region is drawn, then each renderer is run  *)

MaxChildren == 3

TextA == <<"a">>
TextB == <<"b">>
Li(kids) == Elem("li", kids)
SampleChildren ==
    { Elem("h2", <<Text(TextA)>>),
      Elem("h3", <<Text(TextA)>>),
      Elem("p", <<Text(<<" ", "a", "\n">>)>>),
      Elem("p", <<Text(TextB)>>),
      Elem("p", <<Elem("img", <<>>)>>),
      Elem("p", <<Text(TextA), Elem("img", <<>>)>>),
      Elem("p", <<Text(<<" ">>)>>),
      Elem("ul", <<Li(<<Text(TextA)>>), Li(<<Text(TextB)>>)>>),
      Elem("ul", <<Li(<<Text(TextA),
                        Elem("ul", <<Li(<<Text(TextB)>>)>>)>>)>>),
      Elem("ol", <<Li(<<Elem("b", <<Text(TextB)>>), Text(TextA)>>),
                   Li(<<Text(TextA)>>)>>),
      Elem("div", <<Elem("p", <<Text(TextA)>>)>>),
      Text(<<"\n">>) }

Regions ==
    {Elem("div", kids) :
        kids \in UNION {[1..n -> SampleChildren] : n \in 0..MaxChildren}}

MarkdownInit ==
    /\ element \in Regions
    /\ course_md = Pending
    /\ track_md = Pending
    /\ DurIdle /\ ExIdle /\ RunIdle /\ UnitIdle

RenderCourse ==
    /\ course_md = Pending
    /\ course_md' = Str(course_convert_html_to_markdown(element))
    /\ UNCHANGED <<element, track_md, durVars, exVars, runVars, unitVars>>

RenderTrack ==
    /\ track_md = Pending
    /\ track_md' = Str(track_convert_html_to_markdown(element))
    /\ UNCHANGED <<element, course_md, durVars, exVars, runVars, unitVars>>

MarkdownNext == RenderCourse \/ RenderTrack

SpecMarkdown == MarkdownInit /\ [][MarkdownNext]_vars

\* text.split(sep), cur being the piece read so far
RECURSIVE SplitFrom(_, _, _)
SplitFrom(s, sep, cur) ==
    IF s = <<>> THEN <<cur>>
    ELSE IF HasAt(s, sep, 1)
         THEN <<cur>> \o SplitFrom(SubSeq(s, Len(sep) + 1, Len(s)), sep, <<>>)
         ELSE SplitFrom(Tail(s), sep, Append(cur, s[1]))

\* the lines of a rendered text
LinesOf(md) == IF md = <<>> THEN <<>> ELSE SplitFrom(md, BlankLine, <<>>)

NoRepeat(seq) == \A i, j \in 1..Len(seq) : i # j => seq[i] # seq[j]

\* C6: the output of either renderer never contains the same line twice.
C6_NoRepeatedLine ==
    /\ course_md # Pending => NoRepeat(LinesOf(course_md.s))
    /\ track_md # Pending => NoRepeat(LinesOf(track_md.s))

\* the paragraphs among the children of the region
Paragraphs == SelectSeq(element.kids, LAMBDA c : c.tag = "p")
OnlyParagraphs == Len(Paragraphs) = Len(element.kids)
ParagraphTexts ==
    {get_text(Paragraphs[i]) : i \in 1..Len(Paragraphs)} \ {<<>>}
LineSet(md) == {LinesOf(md)[i] : i \in 1..Len(LinesOf(md))}

\* C7: a paragraph is omitted exactly when its trimmed text is empty (which
\* covers an image-only paragraph); every paragraph with non-empty trimmed
\* text, also one holding an image, has its text as a line.
C7_ParagraphOmittedIffEmpty ==
    \A md \in ({course_md, track_md} \ {Pending}) :
        /\ ParagraphTexts \subseteq LineSet(md.s)
        /\ OnlyParagraphs => LineSet(md.s) = ParagraphTexts

\* the region holds one list and nothing else
OneList == Len(element.kids) = 1 /\ element.kids[1].tag \in {"ul", "ol"}

\* the marker that starts the line of the i-th item of a list
ItemMarker(list, i) ==
    IF list.tag = "ul" THEN <<"-", " ">> ELSE IntToText(i) \o <<".", " ">>

\* the lines are one for each direct item of the list, in order, each
\* starting with the marker of its item
LinesOfDirectItems(lines, list) ==
    LET items == SelectSeq(list.kids, LAMBDA c : c.tag = "li")
    IN  /\ Len(lines) = Len(items)
        /\ \A i \in 1..Len(lines) :
               SubSeq(lines[i], 1, Len(ItemMarker(list, i))) = ItemMarker(list, i)

\* C14: a list that is not nested in a list item gives exactly one line for
\* each of its direct items ('- ', or 'N. ' counting the direct items); the
\* items of a list nested in an item get no line of their own.
C14_OneLinePerDirectItem ==
    \A md \in ({course_md, track_md} \ {Pending}) :
        OneList => LinesOfDirectItems(LinesOf(md.s), element.kids[1])

----------------------------------------------------------------------------
(* Sample metadata and markup the documents are drawn from                 *)

T_Person == <<"P", "e", "r", "s", "o", "n">>
PT5H == <<"P", "T", "5", "H">>
PT2H == <<"P", "T", "2", "H">>
PT9H == <<"P", "T", "9", "H">>

CourseA ==
    Obj("@type" :> Str(T_Course) @@ "name" :> Str(<<"A">>)
        @@ "description" :> Str(<<"d", "A">>)
        @@ "offers" :> Obj("price" :> Num(10) @@ "priceCurrency" :> Str(<<"U", "S", "D">>))
        @@ "timeRequired" :> Str(PT5H)
        @@ "educationalLevel" :> Str(<<"B", "e", "g">>))
CourseB ==
    Obj("@type" :> Str(T_Course) @@ "name" :> Str(<<"B">>)
        @@ "hasCourseInstance" :>
               List(<<Obj("courseWorkload" :> Str(PT2H)),
                      Obj("courseWorkload" :> Str(PT9H))>>))
PersonP == Obj("@type" :> Str(T_Person) @@ "name" :> Str(<<"P">>))
\* a Course whose offers is a string
CourseBadOffers ==
    Obj("@type" :> Str(T_Course) @@ "name" :> Str(<<"C">>)
        @@ "offers" :> Str(<<"f", "r", "e", "e">>))
\* a Course whose duration is a number
CourseNumDuration ==
    Obj("@type" :> Str(T_Course) @@ "name" :> Str(<<"D">>)
        @@ "timeRequired" :> Num(5))
TrackT ==
    Obj("name" :> Str(T_MySQL) @@ "description" :> Str(<<"d", "T">>)
        @@ "offers" :> Obj("price" :> Num(99))
        @@ "timeRequired" :> Str(<<"P", "T", "1", "0", "H">>)
        @@ "hasPart" :> List(<<Obj("url" :> Str(<<"u", "1">>)),
                               Obj("name" :> Str(<<"n">>))>>))
\* a track whose name is null
TrackNullName == Obj("name" :> Null @@ "description" :> Str(<<"d", "N">>))

SamplePayloads ==
    { Num(1), CourseA, CourseB, PersonP, CourseBadOffers, CourseNumDuration,
      TrackT, TrackNullName,
      List(<<>>),
      List(<<CourseA, CourseB>>),
      List(<<PersonP, CourseA>>),
      List(<<CourseB, Str(<<"x">>), CourseA>>) }

SampleScripts ==
    {Script(Null), Script(BadText)}
        \cup {Script(JsonText(v)) : v \in SamplePayloads}

\* a page with a skills section, a description section and a summary
BodyFull ==
    Elem("body", <<
        Elem("div", <<
            ElemA("span", "", {"productSummarySection__itemLabel"},
                  <<Text(<<"C", "o", "d", "i", "n", "g", " ", "C", "h", "a", "l", "l", "e", "n", "g", "e", "s">>)>>),
            ElemA("span", "", {"productSummarySection__itemValue"},
                  <<Text(<<"1", "2", " ", "e", "x", "e", "r", "c", "i", "s", "e", "s">>)>>)>>),
        ElemA("h2", "", {"skillsSection__title"}, <<Text(<<"S", "k", "i", "l", "l", "s", " ", "y", "o", "u", " ", "w", "i", "l", "l", " ", "g", "a", "i", "n">>)>>),
        Elem("ul", <<Li(<<Text(<<"J", "o", "i", "n", "s">>)>>), Li(<<Text(<<"S", "u", "b", "q", "u", "e", "r", "i", "e", "s">>)>>)>>),
        ElemA("h2", "", {"productDescriptionSection__title"}, <<Text(<<"D", "e", "s", "c", "r", "i", "p", "t", "i", "o", "n">>)>>),
        ElemA("div", "", {"productDescriptionSection__content"}, <<
            ElemA("div", "", {"course_information"}, <<
                Elem("h3", <<Text(TextA)>>),
                Elem("p", <<Text(TextB)>>),
                Elem("p", <<Text(TextB)>>)>>)>>)>>)
\* a page with none of the sections
BodyBare == Elem("body", <<Elem("p", <<Text(TextA)>>)>>)

SampleBodies == {BodyFull, BodyBare}

----------------------------------------------------------------------------
(* Extraction harness: a document is drawn, then each extractor is run     *)

MaxScripts == 2

Pages ==
    { [scripts |-> scripts, body |-> body] :
        scripts \in UNION {[1..n -> SampleScripts] : n \in 0..MaxScripts},
        body \in SampleBodies }

ExtractInit ==
    /\ page \in Pages
    /\ course_result = Pending
    /\ track_result = Pending
    /\ DurIdle /\ MdIdle /\ RunIdle /\ UnitIdle

ExtractCourses ==
    /\ course_result = Pending
    /\ course_result' = find_course_json_ld(page)
    /\ UNCHANGED <<page, track_result, durVars, mdVars, runVars, unitVars>>

ExtractTrack ==
    /\ track_result = Pending
    /\ track_result' = extract_track_info(page)
    /\ UNCHANGED <<page, course_result, durVars, mdVars, runVars, unitVars>>

ExtractNext == ExtractCourses \/ ExtractTrack

SpecExtract == ExtractInit /\ [][ExtractNext]_vars

\* the decoded payload of a script (Absent when its text does not decode)
PayloadOf(script) ==
    IF script.string.k = "text" /\ script.string.valid THEN script.string.json
    ELSE Absent

\* the objects and other items a script holds, in order
ItemsOf(script) ==
    LET v == PayloadOf(script)
    IN  IF v.k = "list" THEN v.items ELSE IF v.k = "obj" THEN <<v>> ELSE <<>>

IsCourse(o) == o.k = "obj" /\ Get(o, "@type") = Str(T_Course)

\* a Course object of the expected shape: offers an object when present, the
\* duration fields strings when present, course instances an array of objects
ShapedCourse(o) ==
    /\ Get(o, "offers").k \in {"null", "obj"}
    /\ Get(o, "timeRequired").k \in {"null", "str"}
    /\ \/ Get(o, "hasCourseInstance").k = "null"
       \/ /\ Get(o, "hasCourseInstance").k = "list"
          /\ \A i \in 1..Len(Get(o, "hasCourseInstance").items) :
                LET inst == Get(o, "hasCourseInstance").items[i]
                IN  inst.k = "obj" /\ Get(inst, "courseWorkload").k \in {"null", "str"}

\* a well-formed script: it decodes to an object or an array of objects, and
\* its Course objects have the expected shape
WellFormed(script) ==
    /\ PayloadOf(script).k \in {"obj", "list"}
    /\ \A i \in 1..Len(ItemsOf(script)) :
          /\ ItemsOf(script)[i].k = "obj"
          /\ IsCourse(ItemsOf(script)[i]) => ShapedCourse(ItemsOf(script)[i])

\* the Course objects of the scripts (of the well-formed ones only, when
\* asked), in document order
CourseObjects(scripts, well_formed_only) ==
    Flatten([i \in 1..Len(scripts) |->
        IF well_formed_only => WellFormed(scripts[i]) THEN SelectSeq(ItemsOf(scripts[i]), IsCourse)
        ELSE <<>>])

\* what identifies the record of an object: its metadata fields
ObjectKey(o) ==
    [type |-> Get(o, "@type"), title |-> Get(o, "name"),
     description |-> Get(o, "description"),
     educationalLevel |-> Get(o, "educationalLevel")]
RecordKey(r) ==
    [type |-> r.type, title |-> r.title, description |-> r.description,
     educationalLevel |-> r.educationalLevel]
ObjectKeys(objs) == [i \in 1..Len(objs) |-> ObjectKey(objs[i])]
RecordKeys(recs) == [i \in 1..Len(recs) |-> RecordKey(recs[i])]

\* whether a is b with some elements left out
RECURSIVE IsSubseq(_, _)
IsSubseq(a, b) ==
    IF a = <<>> THEN TRUE
    ELSE IF b = <<>> THEN FALSE
    ELSE IF Head(a) = Head(b) THEN IsSubseq(Tail(a), Tail(b))
    ELSE IsSubseq(a, Tail(b))

\* C1: no malformed script aborts the document: find_course_json_ld raises
\* nothing, and returns every Course object of the well-formed scripts.
C1_BadBlockNeverAborts ==
    course_result # Pending =>
        /\ course_result.k = "ok"
        /\ IsSubseq(ObjectKeys(CourseObjects(page.scripts, TRUE)),
                    RecordKeys(course_result.v))

\* C8: for well-formed scripts the extractor returns exactly one record per
\* object of type Course, from single objects and arrays alike, in document
\* order; no record comes from anything else, and a document without a
\* Course object yields the empty result.
C8_OneRecordPerCourseObject ==
    course_result # Pending =>
        /\ course_result.k = "ok" =>
              IsSubseq(RecordKeys(course_result.v),
                       ObjectKeys(CourseObjects(page.scripts, FALSE)))
        /\ (\A i \in 1..Len(page.scripts) : WellFormed(page.scripts[i])) =>
              /\ course_result.k = "ok"
              /\ RecordKeys(course_result.v)
                    = ObjectKeys(CourseObjects(page.scripts, TRUE))

\* C8 witness: an array holding a non-Course object and a single object were
\* both extracted from
C8_Witness ==
    /\ course_result # Pending
    /\ course_result.k = "ok"
    /\ Len(page.scripts) = 2
    /\ \A i \in 1..2 : WellFormed(page.scripts[i])
    /\ PayloadOf(page.scripts[1]).k = "list"
    /\ \E i \in 1..Len(ItemsOf(page.scripts[1])) : ~IsCourse(ItemsOf(page.scripts[1])[i])
    /\ PayloadOf(page.scripts[2]).k = "obj"
    /\ Len(course_result.v) = 2

IsTrackRecord(r) == r # Pending /\ r.k = "ok" /\ r.v # Null

\* a decoded second script no record can be built from
MalformedTrack(v) ==
    \/ v.k # "obj"
    \/ GetOr(v, "name", Str(<<>>)).k \in {"null", "num"}
    \/ GetOr(v, "offers", EmptyDict).k # "obj"
    \/ GetOr(v, "timeRequired", Str(<<>>)).k # "str"

\* C9: the Track record is built from the second script and no other: fewer
\* than two scripts, or a malformed second script, yield no record.
C9_TrackFromSecondScript ==
    track_result # Pending =>
        /\ Len(page.scripts) < 2 => track_result = Ok(Null)
        /\ (Len(page.scripts) >= 2 /\ PayloadOf(page.scripts[2]).k # "obj")
              => track_result = Ok(Null)
        /\ (Len(page.scripts) >= 2 /\ MalformedTrack(PayloadOf(page.scripts[2])))
              => ~IsTrackRecord(track_result)
        /\ IsTrackRecord(track_result) =>
              /\ Len(page.scripts) >= 2
              /\ PayloadOf(page.scripts[2]).k = "obj"
              /\ track_result.v.name
                    = GetOr(PayloadOf(page.scripts[2]), "name", Str(<<>>))
              /\ track_result.v.description
                    = GetOr(PayloadOf(page.scripts[2]), "description", Str(<<>>))
              /\ track_result.v.price
                    = GetOr(GetOr(PayloadOf(page.scripts[2]), "offers", EmptyDict),
                            "price", Str(<<>>))

\* C9 witness: a record was built while the first script holds another
\* well-formed object
C9_Witness ==
    /\ IsTrackRecord(track_result)
    /\ PayloadOf(page.scripts[1]).k = "obj"
    /\ ~MalformedTrack(PayloadOf(page.scripts[1]))
    /\ PayloadOf(page.scripts[1]) # PayloadOf(page.scripts[2])

----------------------------------------------------------------------------
(* The run of a scraper over its URL list (course_scraper.py 199-312,      *)
(* track_scraper.py 234-285, main)                                         *)

MaxUrls == 3

\* a track whose description is null
TrackNullDescription == Obj("name" :> Str(T_PostgreSQL) @@ "description" :> Null)

\* the outcome of a fetch that raises a RequestException
FetchFailed == [k |-> "failed"]

J(v) == Script(JsonText(v))
RunPages ==
    { [scripts |-> <<J(CourseA), J(TrackT)>>, body |-> BodyFull],
      [scripts |-> <<J(List(<<CourseA, CourseB>>)), J(CourseB)>>, body |-> BodyFull],
      [scripts |-> <<J(PersonP)>>, body |-> BodyBare],
      [scripts |-> <<J(CourseA), Script(Null)>>, body |-> BodyBare],
      [scripts |-> <<J(CourseB), J(TrackNullName)>>, body |-> BodyBare],
      [scripts |-> <<J(PersonP), J(TrackNullDescription)>>, body |-> BodyBare] }

\* the text of the i-th URL of the list; the URLs are distinct
UrlText(i) == <<"u">> \o IntToText(i)

RunInit ==
    /\ kind \in {"Course", "Track"}
    /\ \E n \in 0..MaxUrls :
          /\ urls = [i \in 1..n |-> UrlText(i)]
          /\ web \in [1..n -> RunPages \cup {FetchFailed}]
    /\ idx = 1
    /\ all_courses = <<>>
    /\ tracks_data = <<>>
    /\ csvfile = Absent
    /\ pc = "loop"
    /\ DurIdle /\ MdIdle /\ ExIdle /\ UnitIdle

\* CourseRecords with every course appended twice
CourseRecordsTwice(url, courses, html_content) ==
    LET once == [i \in 1..Len(courses) |-> [source_url |-> Str(url)] @@ courses[i]]
    IN  once \o once

\* course_scraper.py 213-224: the records one document adds to all_courses
CourseRecords(url, courses, html_content) ==
    [i \in 1..Len(courses) |->
        [source_url |-> Str(url),
         skills |-> extract_skills(html_content),
         detailed_description |-> course_extract_detailed_description(html_content),
         exercises_count |-> extract_exercises_count(html_content)]
        @@ courses[i]]

\* course_scraper.py 202-247: one iteration of the loop over urls
CourseIteration ==
    /\ pc = "loop" /\ kind = "Course" /\ idx <= Len(urls)
    /\ LET url == urls[idx]
           response == web[idx]
           courses == find_course_json_ld(response)
       IN  IF response = FetchFailed
           THEN all_courses' = all_courses /\ pc' = pc /\ idx' = idx + 1
           ELSE IF courses.k = "raise"
           THEN all_courses' = all_courses /\ pc' = "aborted" /\ idx' = idx
           ELSE /\ all_courses' = all_courses \o CourseRecords(url, courses.v, response)
                /\ pc' = pc
                /\ idx' = idx + 1
    /\ UNCHANGED <<kind, urls, web, tracks_data, csvfile, durVars, mdVars, exVars, unitVars>>

\* course_scraper.py 249-312: after the loop, the summary and the export
CourseExport ==
    /\ pc = "loop" /\ kind = "Course" /\ idx > Len(urls)
    /\ csvfile' = IF all_courses # <<>> THEN save_courses_to_csv(all_courses)
                  ELSE csvfile
    /\ pc' = "done"
    /\ UNCHANGED <<kind, urls, web, idx, all_courses, tracks_data,
                   durVars, mdVars, exVars, unitVars>>

\* track_scraper.py 14-22, fetch_track_content: the page, or None
fetch_track_content(i) == IF web[i] = FetchFailed THEN Null ELSE web[i]

\* track_scraper.py 241-258: one iteration of the loop of main
TrackIteration ==
    /\ pc = "loop" /\ kind = "Track" /\ idx <= Len(urls)
    /\ LET url == urls[idx]
           content == fetch_track_content(idx)
           track_info == extract_track_info(content)
       IN  IF content = Null
           THEN tracks_data' = tracks_data /\ pc' = pc /\ idx' = idx + 1
           ELSE IF track_info.k = "raise"
           THEN tracks_data' = tracks_data /\ pc' = "aborted" /\ idx' = idx
           ELSE /\ tracks_data' =
                      IF track_info.v = Null THEN tracks_data
                      ELSE Append(tracks_data, [url |-> Str(url)] @@ track_info.v)
                /\ pc' = pc
                /\ idx' = idx + 1
    /\ UNCHANGED <<kind, urls, web, all_courses, csvfile, durVars, mdVars, exVars, unitVars>>

\* track_scraper.py 277: track['description'][:100] raises a TypeError for a
\* description that cannot be sliced
SummaryRaises(tracks) ==
    \E i \in 1..Len(tracks) : tracks[i].description.k \notin {"str", "list"}

\* track_scraper.py 260-285: after the loop, the summary and the export
TrackExport ==
    /\ pc = "loop" /\ kind = "Track" /\ idx > Len(urls)
    /\ IF SummaryRaises(tracks_data)
       THEN csvfile' = csvfile /\ pc' = "aborted"
       ELSE /\ csvfile' = IF tracks_data # <<>> THEN save_tracks_to_csv(tracks_data)
                          ELSE csvfile
            /\ pc' = "done"
    /\ UNCHANGED <<kind, urls, web, idx, all_courses, tracks_data,
                   durVars, mdVars, exVars, unitVars>>

Next == CourseIteration \/ CourseExport \/ TrackIteration \/ TrackExport

Spec == RunInit /\ [][Next]_vars

\* the source URLs of the records of a collection, in order
CourseUrls == [i \in 1..Len(all_courses) |-> all_courses[i].source_url]
TrackUrls == [i \in 1..Len(tracks_data) |-> tracks_data[i].url]
RecordUrls == IF kind = "Course" THEN CourseUrls ELSE TrackUrls

\* how many records of the collection carry the i-th URL
CountOf(i) == Len(SelectSeq(RecordUrls, LAMBDA u : u = Str(urls[i])))

\* C4 as stated: after a run no two records share (kind, sourceUrl).
C4_UniqueKindAndUrl == pc = "done" => NoRepeat(RecordUrls)

\* C4 as amended: no two Track records share a sourceUrl; a Course document
\* contributes one record per Course object extracted from it, never more
\* than it holds, and exactly that many when its scripts are well formed; a
\* URL whose fetch failed contributes none.
C4_RecordsPerDocument ==
    /\ NoRepeat(TrackUrls)
    /\ \A i \in 1..Len(urls) :
          /\ (web[i] = FetchFailed \/ i >= idx) => CountOf(i) = 0
          /\ (kind = "Course" /\ web[i] # FetchFailed) =>
                /\ CountOf(i) <= Len(CourseObjects(web[i].scripts, FALSE))
                /\ (i < idx /\ \A j \in 1..Len(web[i].scripts) :
                                  WellFormed(web[i].scripts[j]))
                      => CountOf(i) = Len(CourseObjects(web[i].scripts, TRUE))

\* C4 witness: a finished Course run in which one document contributed
\* several records and another document contributed too
C4_Witness ==
    /\ pc = "done" /\ kind = "Course"
    /\ \E i, j \in 1..Len(urls) : i # j /\ CountOf(i) >= 2 /\ CountOf(j) >= 1

\* position in the URL list of a record's URL
UrlIndex(u) == CHOOSE i \in 1..Len(urls) : Str(urls[i]) = u

\* C5: the run never aborts; a URL whose fetch fails contributes no record,
\* every other URL is processed, and the records keep the order of the URLs.
C5_RunNeverAborts ==
    /\ pc # "aborted"
    /\ pc = "done" =>
          /\ idx = Len(urls) + 1
          /\ \A i \in 1..Len(urls) : web[i] = FetchFailed => CountOf(i) = 0
          /\ \A a, b \in 1..Len(RecordUrls) :
                a < b => UrlIndex(RecordUrls[a]) <= UrlIndex(RecordUrls[b])

\* the record collection of the run
Collection == IF kind = "Course" THEN all_courses ELSE tracks_data
TitleOf(r) == IF kind = "Course" THEN r.title ELSE r.name
KindText == IF kind = "Course" THEN T_Course ELSE T_TrackKind

ExpectedColumns ==
    <<F_title, F_url, F_exercises, F_dialect, F_hours, F_kind, F_description,
      F_detailed_description, F_skills, F_purpose, F_level, F_price>>

\* the table is the header row followed by one row per record, in the order
\* of the collection, the cells in the order of the 12 columns
TableOfCollection ==
    /\ csvfile.k = "file"
    /\ Len(csvfile.rows) = Len(Collection) + 1
    /\ csvfile.rows[1] = ExpectedColumns
    /\ \A i \in 1..Len(Collection) :
          LET row == csvfile.rows[i + 1]
          IN  /\ Len(row) = 12
              /\ row[1] = CellText(TitleOf(Collection[i]))
              /\ row[2] = CellText(RecordUrls[i])
              /\ row[6] = KindText
              /\ row[7] = CellText(Collection[i].description)
              /\ row[8] = Collection[i].detailed_description

\* C10 as stated: for every N, N = 0 included, the table is one header row
\* followed by N data rows.
C10_HeaderAndNRows == pc = "done" => TableOfCollection

\* C10 as amended: for N >= 1 records the table is the header row followed
\* by N data rows, columns and rows in order; for N = 0, and in a run that
\* did not finish, no table is written.
C10_TableWhenRecords ==
    /\ pc # "done" => csvfile = Absent
    /\ pc = "done" =>
          IF Collection = <<>> THEN csvfile = Absent ELSE TableOfCollection

\* C10 witness: a table of at least two data rows was written
C10_Witness == pc = "done" /\ csvfile.k = "file" /\ Len(csvfile.rows) >= 3

----------------------------------------------------------------------------
(* Price harness: an offers value is drawn, then each scraper builds its   *)
(* record from metadata carrying it and writes the row of that record      *)

MaxAmount == 3

T_USD == <<"U", "S", "D">>
T_EUR == <<"E", "U", "R">>

\* the values of offers.price and offers.priceCurrency (Absent: no such key)
SampleAmounts ==
    {Absent, Null, Str(<<>>)}
        \cup {Num(n) : n \in 0..MaxAmount}
        \cup {Str(IntToText(n)) : n \in 0..MaxAmount}
SampleCurrencies == {Absent, Null, Str(<<>>), Str(T_USD), Str(T_EUR)}

\* the dict of the given items, without the keys whose value is Absent
DictOf(items) ==
    Obj([key \in {x \in DOMAIN items : items[x] # Absent} |-> items[key]])

SampleOffers ==
    {Absent} \cup
    { DictOf("price" :> a @@ "priceCurrency" :> c) :
        a \in SampleAmounts, c \in SampleCurrencies }

\* the metadata object of the given type and name that carries the offers
WithOffers(type, name, offers) ==
    DictOf("@type" :> Str(type) @@ "name" :> Str(name) @@ "offers" :> offers)

\* the cell of a written row under the column called name
CellOf(row, name) ==
    row[CHOOSE j \in 1..Len(fieldnames) : fieldnames[j] = name]

PriceInit ==
    /\ sample \in SampleOffers
    /\ course_out = Pending
    /\ track_out = Pending
    /\ DurIdle /\ MdIdle /\ ExIdle /\ RunIdle

\* course_scraper.py 15-50, 219-224, 280-307: the price cell of the row of a
\* Course object
CoursePriceCell(offers) ==
    LET html_content == [scripts |-> <<>>, body |-> BodyBare]
        data == extract_course_data(WithOffers(T_Course, <<"A">>, offers))
    IN  IF data.k = "raise" THEN data
        ELSE LET course == CourseRecords(UrlText(1), <<data.v>>, html_content)[1]
             IN  Ok(CellOf(writerow(course_row_data(course)), F_price))

\* track_scraper.py 161-198, 248, 214-230: the price cell of the row of a
\* track
TrackPriceCell(offers) ==
    LET html_content == [scripts |-> <<>>, body |-> BodyBare]
        info == TrackRecord(WithOffers(T_TrackKind, T_MySQL, offers), html_content)
    IN  IF info.k = "raise" \/ info.v = Null THEN info
        ELSE Ok(CellOf(writerow(track_row([url |-> Str(UrlText(1))] @@ info.v)),
                       F_price))

ExportCoursePrice ==
    /\ course_out = Pending
    /\ course_out' = CoursePriceCell(sample)
    /\ UNCHANGED <<sample, track_out, durVars, mdVars, exVars, runVars>>

ExportTrackPrice ==
    /\ track_out = Pending
    /\ track_out' = TrackPriceCell(sample)
    /\ UNCHANGED <<sample, course_out, durVars, mdVars, exVars, runVars>>

PriceNext == ExportCoursePrice \/ ExportTrackPrice

SpecPrice == PriceInit /\ [][PriceNext]_vars

\* a field of the offers that is there: a number, or a text that is not empty
Present(v) == v.k = "num" \/ (v.k = "str" /\ v.s # <<>>)
FieldText(v) == IF v.k = "num" THEN IntToText(v.n) ELSE v.s
OfferField(offers, key) ==
    IF offers.k = "obj" /\ key \in DOMAIN offers.f THEN offers.f[key] ELSE Absent

\* '<amount> <currency>', the bare amount, or nothing
ExpectedPrice(offers) ==
    LET amount == OfferField(offers, "price")
        currency == OfferField(offers, "priceCurrency")
    IN  IF Present(amount) /\ Present(currency)
        THEN FieldText(amount) \o <<" ">> \o FieldText(currency)
        ELSE IF Present(amount) THEN FieldText(amount)
        ELSE <<>>

\* C11: the price cell is '<amount> <currency>' when both are present, the
\* bare amount when only the amount is, and empty only when the amount is
\* absent, for every present amount, 0 included, in Course and Track rows.
C11_PriceCell ==
    /\ course_out # Pending => course_out = Ok(ExpectedPrice(sample))
    /\ track_out # Pending => track_out = Ok(ExpectedPrice(sample))

----------------------------------------------------------------------------
(* Title harness: a track title is drawn, then extract_track_info's record *)
(* is built from metadata carrying it                                      *)

MaxWords == 3

TitleWords ==
    {T_MySQL, T_PostgreSQL, T_SQLServer, T_Practice, <<" ">>,
     <<"M", "y">>, <<"S", "Q", "L">>, <<"m", "y", "s", "q", "l">>}

\* the titles made of at most MaxWords of the words
SampleTitles ==
    UNION { {Flatten(ws) : ws \in [1..n -> TitleWords]} : n \in 0..MaxWords }

TitleInit ==
    /\ sample \in {Str(t) : t \in SampleTitles}
    /\ course_out = Pending
    /\ track_out = Pending
    /\ DurIdle /\ MdIdle /\ ExIdle /\ RunIdle

\* track_scraper.py 165-190: the dialect and the purpose of the record of a
\* track called track_name
TitleFields(track_name) ==
    LET html_content == [scripts |-> <<>>, body |-> BodyBare]
        info == TrackRecord(Obj("name" :> track_name), html_content)
    IN  IF info.k = "raise" \/ info.v = Null THEN info
        ELSE Ok([dialect |-> info.v.dialect, purpose |-> info.v.purpose])

ResolveTitle ==
    /\ track_out = Pending
    /\ track_out' = TitleFields(sample)
    /\ UNCHANGED <<sample, course_out, durVars, mdVars, exVars, runVars>>

TitleNext == ResolveTitle

SpecTitle == TitleInit /\ [][TitleNext]_vars

\* whether the text holds pat as a substring
HasSub(text, pat) ==
    \E i \in 0..(Len(text) - Len(pat)) : SubSeq(text, i + 1, i + Len(pat)) = pat

\* C12: the dialect is 'MySQL' if the title contains 'MySQL', else
\* 'PostgreSQL' if it contains that, else 'SQL Server' if it contains that,
\* else 'Standard SQL'; it is always one of the four.
C12_DialectPriority ==
    track_out # Pending =>
        /\ track_out.k = "ok"
        /\ track_out.v.dialect \in {T_MySQL, T_PostgreSQL, T_SQLServer, T_StandardSQL}
        /\ track_out.v.dialect =
              IF HasSub(sample.s, T_MySQL) THEN T_MySQL
              ELSE IF HasSub(sample.s, T_PostgreSQL) THEN T_PostgreSQL
              ELSE IF HasSub(sample.s, T_SQLServer) THEN T_SQLServer
              ELSE T_StandardSQL

\* C12 witness: a title that names PostgreSQL before MySQL was resolved
C12_Witness ==
    /\ track_out # Pending
    /\ HasSub(sample.s, T_PostgreSQL \o T_MySQL)
    /\ track_out.v.dialect = T_MySQL

----------------------------------------------------------------------------
(* Summary harness: the spans of a product summary are drawn, then the     *)
(* exercises count is extracted from the document holding them             *)

MaxSpans == 3

T_ExercisesLabel == <<"E", "x", "e", "r", "c", "i", "s", "e", "s">>
T_ChallengesLabel == <<"C", "o", "d", "i", "n", "g", " ", "C", "h", "a", "l", "l", "e", "n", "g", "e", "s">>
T_HoursLabel == <<"H", "o", "u", "r", "s">>
T_TwelveExercises == <<"1", "2", " ", "e", "x", "e", "r", "c", "i", "s", "e", "s">>
T_NotAvailable == <<"n", "/", "a">>
T_Seven == <<" ", "7", " ">>

\* what a summary is made of: a label span, a value span (with the count
\* its text shows, -1 when it shows no digit), or the start of the next item
\* container
LabelSpan(text) == [t |-> "label", text |-> text, count |-> -1]
ValueSpan(text, count) == [t |-> "value", text |-> text, count |-> count]
NextItem == [t |-> "break", text |-> <<>>, count |-> -1]

SampleSpans ==
    {LabelSpan(T_ExercisesLabel), LabelSpan(T_ChallengesLabel),
     LabelSpan(T_HoursLabel), ValueSpan(T_TwelveExercises, 12),
     ValueSpan(T_NotAvailable, -1), ValueSpan(T_Seven, 7), NextItem}

SampleSummaries == UNION {[1..n -> SampleSpans] : n \in 0..MaxSpans}

\* the item containers of a summary: its spans split at each NextItem
RECURSIVE ItemGroups(_, _)
ItemGroups(spans, group) ==
    IF spans = <<>> THEN <<group>>
    ELSE IF Head(spans).t = "break"
    THEN <<group>> \o ItemGroups(Tail(spans), <<>>)
    ELSE ItemGroups(Tail(spans), Append(group, Head(spans)))

\* the markup of a span
SpanElem(span) ==
    ElemA("span", "",
          {IF span.t = "label" THEN "productSummarySection__itemLabel"
           ELSE "productSummarySection__itemValue"},
          <<Text(span.text)>>)

\* the document whose summary holds the spans, one div for each item
SummaryPage(spans) ==
    LET groups == ItemGroups(spans, <<>>)
    IN  [scripts |-> <<>>,
         body |-> Elem("body",
            [g \in 1..Len(groups) |->
                Elem("div", [j \in 1..Len(groups[g]) |-> SpanElem(groups[g][j])])])]

SummaryInit ==
    /\ sample \in SampleSummaries
    /\ course_out = Pending
    /\ track_out = Pending
    /\ DurIdle /\ MdIdle /\ ExIdle /\ RunIdle

CountExercises ==
    /\ course_out = Pending
    /\ course_out' = Ok(extract_exercises_count(SummaryPage(sample)))
    /\ UNCHANGED <<sample, track_out, durVars, mdVars, exVars, runVars>>

SummaryNext == CountExercises

SpecSummary == SummaryInit /\ [][SummaryNext]_vars

\* a label that names the exercises
IsCandidate(span) ==
    span.t = "label" /\ span.text \in {T_ExercisesLabel, T_ChallengesLabel}

\* the count shown by the value next to the label at position j of the
\* spans, -1 when no value is next to it or the value shows no digit
AdjacentCount(spans, j) ==
    IF j < Len(spans) /\ spans[j + 1].t = "value" THEN spans[j + 1].count ELSE -1

\* the count of the first candidate label, in document order, whose adjacent
\* value shows a number; Null when there is none
ExpectedCount(spans) ==
    LET hits == {j \in 1..Len(spans) :
                    IsCandidate(spans[j]) /\ AdjacentCount(spans, j) # -1}
    IN  IF hits = {} THEN Null
        ELSE Num(AdjacentCount(spans, CHOOSE j \in hits : \A h \in hits : j <= h))

\* C13: the extractor returns the integer of the value adjacent to the first
\* candidate label whose value shows one; a candidate with no value, or with
\* a value without digits, is passed over; none when no candidate yields one.
C13_FirstParseableCandidate ==
    course_out # Pending => course_out = Ok(ExpectedCount(sample))

----------------------------------------------------------------------------
(* Workload harness: a Course object is drawn with its duration fields,    *)
(* then extract_course_data is run on it                                   *)

MaxInstances == 2

\* the values of timeRequired and of an instance's courseWorkload
SampleTopDurations == {Absent, Null, Str(<<>>), Str(PT5H)}
SampleInstances ==
    {DictOf("courseWorkload" :> w) : w \in {Absent, Str(<<>>), Str(PT2H), Str(PT9H)}}

\* the values of hasCourseInstance: no such key, one instance that is not in
\* an array, or an array of instances
SampleInstanceFields ==
    {Absent} \cup SampleInstances
        \cup {List(items) :
                items \in UNION {[1..n -> SampleInstances] : n \in 0..MaxInstances}}

SampleWorkloadCourses ==
    { DictOf("@type" :> Str(T_Course) @@ "timeRequired" :> top
             @@ "hasCourseInstance" :> instances) :
        top \in SampleTopDurations, instances \in SampleInstanceFields }

WorkloadInit ==
    /\ sample \in SampleWorkloadCourses
    /\ course_out = Pending
    /\ track_out = Pending
    /\ DurIdle /\ MdIdle /\ ExIdle /\ RunIdle

ExtractWorkload ==
    /\ course_out = Pending
    /\ course_out' = extract_course_data(sample)
    /\ UNCHANGED <<sample, track_out, durVars, mdVars, exVars, runVars>>

WorkloadNext == ExtractWorkload

SpecWorkload == WorkloadInit /\ [][WorkloadNext]_vars

\* the hours a duration value stands for, Null for no token
HoursOfToken(w) ==
    IF w = Str(PT5H) THEN Num(5)
    ELSE IF w = Str(PT2H) THEN Num(2)
    ELSE IF w = Str(PT9H) THEN Num(9)
    ELSE Null

TopDuration == OfferField(sample, "timeRequired")
InstancesField == OfferField(sample, "hasCourseInstance")
FirstInstanceDuration ==
    IF InstancesField.k = "list" /\ InstancesField.items # <<>>
    THEN OfferField(InstancesField.items[1], "courseWorkload")
    ELSE Absent

\* C15: the duration token is the top-level field when it is present and
\* not empty, otherwise the field of the first entry of the course-instances
\* array, never that of a later entry; with no token the hours are null.
C15_WorkloadFallback ==
    course_out # Pending =>
        /\ course_out.k = "ok"
        /\ course_out.v.courseWorkload_hours =
              IF Present(TopDuration) THEN HoursOfToken(TopDuration)
              ELSE HoursOfToken(FirstInstanceDuration)

\* C15 witness: without a top-level duration, the first of two instances
\* that differ gave the hours
C15_Witness ==
    /\ course_out # Pending
    /\ ~Present(TopDuration)
    /\ InstancesField.k = "list"
    /\ Len(InstancesField.items) = 2
    /\ InstancesField.items[1] = DictOf("courseWorkload" :> Str(PT2H))
    /\ InstancesField.items[2] = DictOf("courseWorkload" :> Str(PT9H))
    /\ course_out.v.courseWorkload_hours = Num(2)

----------------------------------------------------------------------------
(* Section harness: the markup of a document is drawn from parts, then     *)
(* each scraper builds its record from the document                        *)

MaxParts == 3

T_Overview == <<"O", "v", "e", "r", "v", "i", "e", "w">>
T_Joins == <<"J", "o", "i", "n", "s">>

\* the parts a markup is made of, by name
PartNames ==
    {"skills_h2", "skills_h2_class", "description_h2", "description_h2_id",
     "ul", "content_div", "plain_content_div", "p"}

PartElem(part) ==
    CASE part = "skills_h2" -> Elem("h2", <<Text(T_SkillsLabel)>>)
      [] part = "skills_h2_class" ->
            ElemA("h2", "", {"skillsSection__title"}, <<Text(T_Overview)>>)
      [] part = "description_h2" -> Elem("h2", <<Text(T_DescriptionLabel)>>)
      [] part = "description_h2_id" ->
            ElemA("h2", "productDescriptionSection__title", {},
                  <<Text(T_Overview)>>)
      [] part = "ul" -> Elem("ul", <<Li(<<Text(T_Joins)>>)>>)
      [] part = "content_div" ->
            ElemA("div", "", {"productDescriptionSection__content"},
                  <<ElemA("div", "", {"course_information"},
                          <<Elem("p", <<Text(TextB)>>)>>)>>)
      [] part = "plain_content_div" ->
            ElemA("div", "", {"content"}, <<Elem("p", <<Text(TextA)>>)>>)
      [] part = "p" -> Elem("p", <<Text(TextA)>>)

SampleMarkups == UNION {[1..n -> PartNames] : n \in 0..MaxParts}

\* the document of the given metadata scripts whose body holds the parts
PartsPage(scripts, parts) ==
    [scripts |-> scripts,
     body |-> Elem("body", [i \in 1..Len(parts) |-> PartElem(parts[i])])]

SectionInit ==
    /\ sample \in SampleMarkups
    /\ course_out = Pending
    /\ track_out = Pending
    /\ DurIdle /\ MdIdle /\ ExIdle /\ RunIdle

\* course_scraper.py 213-224: the first record the loop body makes of a
\* document and the courses found in it (Null when there is none)
CourseRecordOf(courses, html_content) ==
    IF courses.k = "raise" THEN courses
    ELSE IF courses.v = <<>> THEN Ok(Null)
    ELSE Ok(CourseRecords(UrlText(1), courses.v, html_content)[1])

BuildCourseRecord ==
    /\ course_out = Pending
    /\ \E html_content \in {PartsPage(<<J(CourseA)>>, sample)} :
       \E courses \in {find_course_json_ld(html_content)} :
          course_out' = CourseRecordOf(courses, html_content)
    /\ UNCHANGED <<sample, track_out, durVars, mdVars, exVars, runVars>>

BuildTrackRecord ==
    /\ track_out = Pending
    /\ \E html_content \in {PartsPage(<<J(PersonP), J(TrackT)>>, sample)} :
          track_out' = extract_track_info(html_content)
    /\ UNCHANGED <<sample, course_out, durVars, mdVars, exVars, runVars>>

SectionNext == BuildCourseRecord \/ BuildTrackRecord

SpecSection == SectionInit /\ [][SectionNext]_vars

\* a part of one of the names is followed by a part of one of the others
Followed(parts, names, others) ==
    \E i, j \in 1..Len(parts) : i < j /\ parts[i] \in names /\ parts[j] \in others

\* the skills section is there: its heading, found by text or by class, and
\* a list after it
SkillsSectionThere(parts) ==
    Followed(parts, {"skills_h2", "skills_h2_class"}, {"ul"})

\* the description section is there: its heading, found by text or by id, and
\* a content division after it
DescriptionSectionThere(parts) ==
    Followed(parts, {"description_h2", "description_h2_id"},
             {"content_div", "plain_content_div"})

\* C16: when the skills or the description section is not located, the
\* skills are the empty sequence and the detailed description the empty
\* string, and the record is still produced with its metadata fields.
C16_MissingSectionNotError ==
    /\ course_out # Pending =>
          /\ course_out.k = "ok" /\ course_out.v # Null
          /\ course_out.v.title = Get(CourseA, "name")
          /\ course_out.v.description = Get(CourseA, "description")
          /\ ~SkillsSectionThere(sample) => course_out.v.skills = <<>>
          /\ ~DescriptionSectionThere(sample)
                => course_out.v.detailed_description = <<>>
    /\ track_out # Pending =>
          /\ track_out.k = "ok" /\ track_out.v # Null
          /\ track_out.v.name = Get(TrackT, "name")
          /\ track_out.v.description = Get(TrackT, "description")
          /\ ~SkillsSectionThere(sample) => track_out.v.skills = <<>>
          /\ ~DescriptionSectionThere(sample)
                => track_out.v.detailed_description = <<>>

\* C16 witness: both records were built from a document that has a list and
\* a content division but the heading of neither section
C16_Witness ==
    /\ course_out # Pending /\ track_out # Pending
    /\ \E i, j \in 1..Len(sample) : sample[i] = "ul" /\ sample[j] = "content_div"
    /\ ~SkillsSectionThere(sample) /\ ~DescriptionSectionThere(sample)
    /\ course_out.v.skills = <<>> /\ track_out.v.detailed_description = <<>>

====
